---- MODULE Spec2Model ----
(***************************************************************************)
(* Retrieval-augmented generation engine of backend/med_bot3:              *)
(*   rag_pipeline.py            RAGPipeline (chunk store, retrieval, query) *)
(*   multi_hop_rag_pipeline.py  MultiHopRAGPipeline (decompose, synthesize) *)
(*                                                                         *)
(* Embeddings are two-dimensional integer vectors of norm 10 (unit vectors *)
(* scaled by 10); a cosine similarity is an integer number of hundredths.  *)
(***************************************************************************)
EXTENDS Integers, Sequences, FiniteSets, TLC

VARIABLES
    chunks,                 \* the chunks table: rows in insertion order
    notebooks,              \* ids of the rows of table notebooks named 'Default Notebook'
    similarity_threshold,   \* RAGPipeline.similarity_threshold (hundredths)
    db_url,                 \* TRUE iff RAGPipeline.db_url is configured
    ret,                    \* what the most recent call on the pipeline returned
    mh_pc,                  \* phase of the MultiHopRAGPipeline.query call
    question,               \* its question, a sequence of words and punctuation marks
    sub_questions,          \* its local sub_questions
    decomposition_method,   \* its local decomposition_method
    llm_failed,             \* TRUE iff the decomposition call of the model raised
    started,                \* number of sub-question calls begun
    in_flight,              \* sub-question calls begun and not yet returned
    steps,                  \* its local steps
    all_contexts,           \* its local all_contexts (chunk ids)
    all_answers,            \* its local all_answers
    synth_failed,           \* TRUE iff the synthesis call of the model raised
    result,                 \* what MultiHopRAGPipeline.query returned
    SENTENCE_TRANSFORMERS_AVAILABLE,    \* module global of rag_pipeline.py
    sentence_model,         \* module global _sentence_model: None or the loaded model
    verbose_mode,           \* MultiHopRAGPipeline.verbose_mode
    tasks,                  \* the query coroutines scheduled on one event loop
    running,                \* the coroutine the event loop is executing, or None
    uploads                 \* the POST /api/upload requests of app.py and how far each got

store_vars == <<chunks, notebooks, similarity_threshold, db_url>>

mh_vars == <<mh_pc, question, sub_questions, decomposition_method, llm_failed, started,
             in_flight, steps, all_contexts, all_answers, synth_failed, result>>

embed_vars == <<SENTENCE_TRANSFORMERS_AVAILABLE, sentence_model>>

loop_vars == <<tasks, running>>

vars == <<store_vars, ret, mh_vars, embed_vars, verbose_mode, loop_vars, uploads>>

----------------------------------------------------------------------------
(* Bounds of the model *)

MaxChunks == 2              \* rows the chunks table can hold
MaxTopK == 2                \* largest top_k a caller passes

(* Program constants *)

SimScale == 10 * 10         \* similarities are counted in hundredths: 1.0 is 100
DefaultThreshold == 30      \* similarity_threshold: float = 0.30

None == "None"
NULL == "NULL"
TEST_USER_ID == "c04c5c6a"
NoMaterial == "I couldn't find relevant material."
GenFailed == "I apologize, but I encountered an error while generating the answer."
GenAnswer == "response.text"

UserArgs == {None, "A", "B"}                \* user_id arguments of ingestions
QueryUsers == {None, "A"}                   \* user_id arguments of queries (B is like A)
NotebookArgs == {None, "default", "N1"}     \* notebook_id arguments (None stands for None and '')
IngestNotebooks == {"default", "N1"}
Embeddings == {<<10, 0>>, <<6, 8>>}         \* what the embedder returns for chunk texts
QueryEmbeddings == {<<10, 0>>, <<0, 10>>}   \* what the embedder returns for questions
Thresholds == {DefaultThreshold, 70}
TopKs == 1..MaxTopK

----------------------------------------------------------------------------
(* Helper functions of rag_pipeline.py *)

get_user_id(user_id) == IF user_id = None THEN TEST_USER_ID ELSE user_id

get_notebook_id(notebook_id) == IF notebook_id = "default" THEN NULL ELSE notebook_id

Dot(a, b) == a[1] * b[1] + a[2] * b[2]

Norm(v) == CHOOSE n \in 0..20 : n * n = Dot(v, v)

Clamp(s) == IF s > SimScale THEN SimScale ELSE IF s < -SimScale THEN -SimScale ELSE s

SeqMap(Op(_), s) == [i \in 1..Len(s) |-> Op(s[i])]

Min(a, b) == IF a < b THEN a ELSE b

Prefix(s, n) == SubSeq(s, 1, Min(n, Len(s)))

Range(s) == {s[i] : i \in 1..Len(s)}

----------------------------------------------------------------------------
(* The chunk store *)

(* a row as _store_chunks writes it: metadata is the chunk's dict *)
Row(id, user_id, notebook_id, embedding) ==
    [id |-> id, user_id |-> user_id, notebook_id |-> notebook_id,
     document_id |-> NULL, embedding |-> embedding, metadata |-> "dict"]


(* _store_chunks: every chunk of the batch becomes a new row (neither write   *)
(* path sends an id, so the table's DEFAULT gen_random_uuid() names the row); *)
(* the direct-DB transaction is tried first when db_url is set, the REST      *)
(* upsert is the fallback, and a REST failure is re-raised.                   *)
store_chunks(batch, notebook_id, user_arg, db_fails, rest_fails) ==
    LET user_id == get_user_id(user_arg)
        n == Len(chunks)
        rows == [i \in 1..Len(batch) |->
                    Row(n + i, user_id, get_notebook_id(notebook_id), batch[i])]
        via_db == db_url /\ ~db_fails
        raised == ~via_db /\ rest_fails
    IN  [table |-> IF raised THEN chunks ELSE chunks \o rows,
         result |-> [op |-> "store", batch |-> batch, notebook_id |-> notebook_id,
                     user_id |-> user_arg, raised |-> raised]]

----------------------------------------------------------------------------
(* Retrieval *)

(* cosine similarity of two vectors, in hundredths *)
Cosine(a, b) == (Dot(a, b) * SimScale) \div (Norm(a) * Norm(b))

(* pgvector's <=> operator: cosine distance *)
CosineDistance(a, b) == SimScale - Cosine(a, b)

(* the Default Notebook lookup: notebooks.select('id').eq('name', 'Default Notebook') *)
DefaultNotebookData == notebooks

(* notebook filter of _query_with_pgvector *)
PgNotebookFilter(notebook_id, lookup_raises) ==
    IF notebook_id # None /\ notebook_id # "default"
    THEN [kind |-> "eq", id |-> notebook_id]
    ELSE IF notebook_id = "default"
    THEN IF lookup_raises THEN [kind |-> "is_null", id |-> NULL]
         ELSE IF DefaultNotebookData # <<>>
         THEN [kind |-> "eq", id |-> DefaultNotebookData[1]]
         ELSE [kind |-> "is_null", id |-> NULL]
    ELSE [kind |-> "none", id |-> NULL]

(* notebook filter of _query_with_supabase_client *)
RestNotebookFilter(notebook_id, lookup_raises) ==
    IF notebook_id # None /\ notebook_id # "default"
    THEN [kind |-> "eq", id |-> notebook_id]
    ELSE IF notebook_id = "default"
    THEN IF lookup_raises THEN [kind |-> "none", id |-> NULL]
         ELSE IF DefaultNotebookData # <<>>
         THEN [kind |-> "eq", id |-> DefaultNotebookData[1]]
         ELSE [kind |-> "is_null", id |-> NULL]
    ELSE [kind |-> "none", id |-> NULL]

NotebookMatches(filter, row) ==
    CASE filter.kind = "eq" -> row.notebook_id = filter.id
      [] filter.kind = "is_null" -> row.notebook_id = NULL
      [] OTHER -> TRUE

(* WHERE clause of the pgvector SELECT *)
PgWhere(row, q_embed, filter, user_id, threshold) ==
    /\ row.user_id = user_id
    /\ row.embedding # NULL
    /\ NotebookMatches(filter, row)
    /\ SimScale - CosineDistance(row.embedding, q_embed) >= threshold

(* ORDER BY c.embedding <=> q: every ordering of the selected rows by        *)
(* non-decreasing distance; SQL leaves the order of equal keys open.         *)
PgOrderings(q_embed, selected) ==
    {ord \in [1..Cardinality(selected) -> selected] :
        /\ \A i, j \in DOMAIN ord : i # j => ord[i] # ord[j]
        /\ \A i, j \in DOMAIN ord : i < j =>
              CosineDistance(chunks[ord[i]].embedding, q_embed)
                  <= CosineDistance(chunks[ord[j]].embedding, q_embed)}

PgSelected(q_embed, notebook_id, user_id, lookup_raises, threshold) ==
    {i \in 1..Len(chunks) :
        PgWhere(chunks[i], q_embed, PgNotebookFilter(notebook_id, lookup_raises),
                user_id, threshold)}

(* _query_with_pgvector: LIMIT top_k * 2, then results[:top_k]; ord is the   *)
(* order in which the store returned the selected rows                       *)
query_with_pgvector(ord, top_k) == Prefix(Prefix(ord, top_k * 2), top_k)

(* find_relevent_chunks with the comparison against the threshold left out *)
find_relevent_chunks_unfiltered(query_embedding, ids, threshold) ==
    IF Norm(query_embedding) = 0 THEN <<>>
    ELSE SelectSeq(ids, LAMBDA i : Norm(chunks[i].embedding) > 0)

(* find_relevent_chunks over the scanned rows (a sequence of row ids) *)
find_relevent_chunks(query_embedding, ids, threshold) ==
    IF Norm(query_embedding) = 0 THEN <<>>
    ELSE SelectSeq(ids, LAMBDA i :
            /\ Norm(chunks[i].embedding) > 0
            /\ Clamp(Cosine(query_embedding, chunks[i].embedding)) >= threshold)

(* the REST scan with the .eq('user_id', user_id) filter left out *)
RestScan_any_user(notebook_id, user_id, lookup_raises) ==
    SelectSeq([i \in 1..Len(chunks) |-> i], LAMBDA i :
        /\ NotebookMatches(RestNotebookFilter(notebook_id, lookup_raises), chunks[i])
        /\ chunks[i].embedding # NULL)

(* the REST scan of _query_with_supabase_client, in table order *)
RestScan(notebook_id, user_id, lookup_raises) ==
    SelectSeq([i \in 1..Len(chunks) |-> i], LAMBDA i :
        /\ chunks[i].user_id = user_id
        /\ NotebookMatches(RestNotebookFilter(notebook_id, lookup_raises), chunks[i])
        /\ chunks[i].embedding # NULL)

query_with_supabase_client(q_embed, notebook_id, top_k, user_id, lookup_raises, threshold) ==
    find_relevent_chunks(q_embed, RestScan(notebook_id, user_id, lookup_raises), threshold)

(* the generative call without its except clause *)
generate_answer_uncaught(gen_raises) ==
    IF gen_raises THEN [answer |-> None, raised |-> TRUE]
    ELSE [answer |-> GenAnswer, raised |-> FALSE]

(* the generative call of RAGPipeline.query and its except clause *)
generate_answer(gen_raises) ==
    IF gen_raises THEN [answer |-> GenFailed, raised |-> FALSE]
    ELSE [answer |-> GenAnswer, raised |-> FALSE]

(* what the outer try of RAGPipeline.query leaves in context: the native     *)
(* search when db_url is set, the REST search when it is not or when the     *)
(* native search raised; an exception of the REST search is caught.          *)
retrieve(q_embed, notebook_id, top_k, user_id, fault, ord) ==
    LET pg_raised == db_url /\ fault.pg
        via_rest == ~db_url \/ pg_raised
        rest_raised == via_rest /\ fault.rest
    IN  [path |-> IF ~db_url THEN "rest" ELSE IF pg_raised THEN "failover" ELSE "pgvector",
         caught |-> rest_raised,
         raised |-> FALSE,
         context |->
            IF rest_raised THEN <<>>
            ELSE IF via_rest
            THEN query_with_supabase_client(q_embed, notebook_id, top_k, user_id,
                                            fault.lookup, similarity_threshold)
            ELSE query_with_pgvector(ord, top_k)]

(* the metadata of a retrieved row as the retrieval hands it to query: the   *)
(* native path passes row['metadata'] or {}, the REST path the column as is *)
ContextMetadata(path, i) ==
    IF path = "pgvector" /\ chunks[i].metadata = NULL THEN "dict" ELSE chunks[i].metadata

(* Chunk(id=i, text=t, tokens=..., metadata=m) for every retrieved row:     *)
(* pydantic rejects a metadata that is not a dict                           *)
chunks_raise(path, context) ==
    \E k \in 1..Len(context) : ContextMetadata(path, context[k]) = NULL

(* RAGPipeline.query without the early return on an empty context *)
query_ungrounded(q_embed, notebook_id, top_k, user_arg, fault, ord) ==
    LET user_id == get_user_id(user_arg)
        r == retrieve(q_embed, notebook_id, top_k, user_id, fault, ord)
        build_raised == chunks_raise(r.path, r.context)
        g == generate_answer(fault.gen)
    IN  [op |-> "query", user_id |-> user_arg, notebook_id |-> notebook_id,
         top_k |-> top_k, q_embed |-> q_embed, path |-> r.path,
         lookup_raised |-> (notebook_id = "default" /\ fault.lookup /\ ~r.caught),
         retrieval_raised |-> r.caught, context |-> r.context,
         gen_called |-> TRUE, gen_raised |-> fault.gen,
         raised |-> (build_raised \/ g.raised),
         answer |-> g.answer,
         chunks |-> r.context]

(* RAGPipeline.query *)
query(q_embed, notebook_id, top_k, user_arg, fault, ord) ==
    LET user_id == get_user_id(user_arg)
        r == retrieve(q_embed, notebook_id, top_k, user_id, fault, ord)
        build_raised == ~r.raised /\ chunks_raise(r.path, r.context)
        call_gen == ~r.raised /\ ~build_raised /\ r.context # <<>>
        g == IF call_gen THEN generate_answer(fault.gen)
             ELSE [answer |-> NoMaterial, raised |-> FALSE]
        raised == r.raised \/ build_raised \/ g.raised
    IN  [op |-> "query", user_id |-> user_arg, notebook_id |-> notebook_id,
         top_k |-> top_k, q_embed |-> q_embed, path |-> r.path,
         lookup_raised |-> (notebook_id = "default" /\ fault.lookup /\ ~r.caught),
         retrieval_raised |-> r.caught, context |-> r.context,
         gen_called |-> call_gen, gen_raised |-> (call_gen /\ fault.gen),
         raised |-> raised,
         answer |-> IF raised THEN None ELSE g.answer,
         chunks |-> IF raised \/ ~call_gen THEN <<>> ELSE r.context]

----------------------------------------------------------------------------
(* Single-hop specification: ingestion and queries on one pipeline *)

Faults == [pg : BOOLEAN, rest : BOOLEAN, lookup : BOOLEAN, gen : BOOLEAN]

NoCall == [op |-> "none"]

NoResult == [answer |-> None]

(* no multi-hop query has been made *)
MHIdle ==
    /\ mh_pc = "Idle"
    /\ question = <<>>
    /\ sub_questions = <<>>
    /\ decomposition_method = None
    /\ llm_failed = FALSE
    /\ started = 0
    /\ in_flight = {}
    /\ steps = <<>>
    /\ all_contexts = <<>>
    /\ all_answers = <<>>
    /\ synth_failed = FALSE
    /\ result = NoResult

(* the embedder has not been used and no coroutine is scheduled *)
ModuleLoaded ==
    /\ SENTENCE_TRANSFORMERS_AVAILABLE = TRUE
    /\ sentence_model = None
    /\ tasks = <<>>
    /\ running = None
    /\ uploads = <<>>

Init ==
    /\ chunks = <<>>
    /\ notebooks \in {<<>>, <<"N1">>}
    /\ similarity_threshold \in Thresholds
    /\ db_url \in BOOLEAN
    /\ ret = NoCall
    /\ MHIdle
    /\ ModuleLoaded
    /\ verbose_mode = TRUE

(* an ingestion reaching _store_chunks with a non-empty batch *)
StoreChunks ==
    /\ ret = NoCall
    /\ \E n \in 1..(MaxChunks - Len(chunks)), notebook_id \in IngestNotebooks,
          user_arg \in UserArgs, db_fails \in BOOLEAN, rest_fails \in BOOLEAN :
        \E batch \in [1..n -> Embeddings] :
            LET s == store_chunks(batch, notebook_id, user_arg, db_fails, rest_fails)
            IN  /\ db_fails => db_url
                /\ rest_fails => (~db_url \/ db_fails)
                /\ chunks' = s.table
                /\ ret' = s.result
                /\ UNCHANGED <<notebooks, similarity_threshold, db_url, mh_vars, embed_vars,
                               verbose_mode, loop_vars, uploads>>

(* the outcomes of the external calls that one query can meet *)
QueryFaults(notebook_id) ==
    {f \in Faults :
        /\ f.pg => db_url
        /\ f.rest => (~db_url \/ f.pg)
        /\ f.lookup => notebook_id = "default"}

(* the orders in which the native search can return its rows; <<>> stands  *)
(* for a query that never runs the SELECT                                  *)
PgReturns(q_embed, notebook_id, user_id, fault) ==
    IF db_url /\ ~fault.pg
    THEN PgOrderings(q_embed, PgSelected(q_embed, notebook_id, user_id,
                                         fault.lookup, similarity_threshold))
    ELSE {<<>>}

Query ==
    /\ ret = NoCall
    /\ \E q_embed \in QueryEmbeddings, notebook_id \in NotebookArgs, top_k \in TopKs,
          user_arg \in QueryUsers :
        \E fault \in QueryFaults(notebook_id) :
        \E ord \in PgReturns(q_embed, notebook_id, get_user_id(user_arg), fault) :
            /\ ret' = query(q_embed, notebook_id, top_k, user_arg, fault, ord)
            /\ UNCHANGED <<store_vars, mh_vars, embed_vars, verbose_mode, loop_vars, uploads>>

(* the caller takes the result *)
Return ==
    /\ ret # NoCall
    /\ ret' = NoCall
    /\ UNCHANGED <<store_vars, mh_vars, embed_vars, verbose_mode, loop_vars, uploads>>

Next == StoreChunks \/ Query \/ Return

Spec == Init /\ [][Next]_vars

----------------------------------------------------------------------------
(* Repeated writes: _store_chunks called again with the chunks of the call  *)
(* before, as a caller does that retries an ingestion                       *)

StoreAgain ==
    /\ ret.op = "store"
    /\ Len(chunks) + Len(ret.batch) <= MaxChunks
    /\ \E db_fails \in BOOLEAN, rest_fails \in BOOLEAN :
        LET s == store_chunks(ret.batch, ret.notebook_id, ret.user_id, db_fails, rest_fails)
        IN  /\ db_fails => db_url
            /\ rest_fails => (~db_url \/ db_fails)
            /\ chunks' = s.table
            /\ ret' = s.result
            /\ UNCHANGED <<notebooks, similarity_threshold, db_url, mh_vars, embed_vars,
                           verbose_mode, loop_vars, uploads>>

NextStore == StoreChunks \/ StoreAgain \/ Return

SpecStore == Init /\ [][NextStore]_vars

(* C16: a second _store_chunks call with the same chunks and scope, after a *)
(* first one that succeeded, leaves the table with the same rows: no        *)
(* duplicate row on the direct-DB path or on the REST path.                 *)
C16_StoreIdempotent ==
    [][(ret.op = "store" /\ ~ret.raised /\ ret'.op = "store")
            => Range(chunks') = Range(chunks)]_vars

----------------------------------------------------------------------------
(* Properties of the single-hop pipeline *)

IsQuery == ret.op = "query"

Similarity(i) == Cosine(ret.q_embed, chunks[i].embedding)

(* C1: every chunk a query returns for user_id = A was stored with          *)
(* user_id = A, on the native path, the REST path and after a failover.     *)
C1_UserIsolation ==
    IsQuery =>
        \A A \in QueryUsers \ {None} :
            ret.user_id = A => \A i \in Range(ret.chunks) : chunks[i].user_id = A

(* a failover query of user A returned chunks while another user's chunk in *)
(* the table is at least as similar to the question                          *)
C1_Witness ==
    /\ IsQuery /\ ret.user_id = "A" /\ ret.path = "failover"
    /\ ret.chunks # <<>>
    /\ \E i \in 1..Len(chunks) :
          /\ chunks[i].user_id # "A"
          /\ Similarity(i) >= similarity_threshold

(* the notebooks a query for ret.notebook_id may draw chunks from *)
ScopeNotebooks ==
    IF ret.notebook_id \notin {None, "default"} THEN {ret.notebook_id}
    ELSE IF ret.lookup_raised THEN {NULL} \cup Range(notebooks)
    ELSE IF notebooks # <<>> THEN {notebooks[1]}
    ELSE {NULL}

(* C2: a query never returns a chunk of a notebook outside its scope: the   *)
(* named notebook, or for 'default', None and '' the Default Notebook (NULL *)
(* when there is none), also when the Default Notebook lookup raises.       *)
C2_NotebookScope ==
    IsQuery => \A i \in Range(ret.chunks) : chunks[i].notebook_id \in ScopeNotebooks

(* C3: a query returns at most top_k chunks, in order of non-increasing     *)
(* cosine similarity to the question, on both retrieval paths.              *)
C3_TopKOrdered ==
    IsQuery =>
        /\ Len(ret.chunks) <= ret.top_k
        /\ \A i, j \in 1..Len(ret.chunks) :
              i < j => Similarity(ret.chunks[i]) >= Similarity(ret.chunks[j])

(* C4: for the same question, scope and top_k, every chunk retrieved with a *)
(* threshold t2 is also retrieved with any threshold t1 <= t2, on the REST  *)
(* path and on the native path.                                             *)
C4_ThresholdMonotone ==
    \A q \in QueryEmbeddings, nb \in NotebookArgs, k \in TopKs, u \in QueryUsers,
       lookup \in BOOLEAN, t1 \in Thresholds, t2 \in Thresholds :
        t1 < t2 =>
            /\ Range(query_with_supabase_client(q, nb, k, get_user_id(u), lookup, t2))
                  \subseteq
                  Range(query_with_supabase_client(q, nb, k, get_user_id(u), lookup, t1))
            /\ \A o2 \in PgOrderings(q, PgSelected(q, nb, get_user_id(u), lookup, t2)),
                  o1 \in PgOrderings(q, PgSelected(q, nb, get_user_id(u), lookup, t1)) :
                    Range(query_with_pgvector(o2, k)) \subseteq Range(query_with_pgvector(o1, k))

(* C5: every returned chunk has a similarity within [-1, 1] that reaches    *)
(* the pipeline's similarity_threshold.                                     *)
C5_SimilarityBound ==
    IsQuery =>
        \A i \in Range(ret.chunks) :
            /\ -SimScale <= Similarity(i) /\ Similarity(i) <= SimScale
            /\ Similarity(i) >= similarity_threshold

(* a query returned chunks and left out a chunk of the same user that is    *)
(* below the threshold                                                       *)
C5_Witness ==
    /\ IsQuery /\ ret.chunks # <<>>
    /\ \E i \in 1..Len(chunks) :
          /\ chunks[i].user_id = get_user_id(ret.user_id)
          /\ Similarity(i) < similarity_threshold

(* no chunk of the querying user reaches the threshold *)
NothingRelevant ==
    \A i \in 1..Len(chunks) :
        chunks[i].user_id = get_user_id(ret.user_id) => Similarity(i) < similarity_threshold

(* C6: when retrieval yields no chunk, the query returns the 'no relevant   *)
(* material' answer with no chunks, raises nothing and does not call the    *)
(* generative model.                                                         *)
C6_EmptyRetrieval ==
    (IsQuery /\ (ret.context = <<>> \/ NothingRelevant)) =>
        /\ ~ret.raised
        /\ ret.answer = NoMaterial
        /\ ret.chunks = <<>>
        /\ ~ret.gen_called

(* the user has chunks in the table, none reaches the threshold, and the    *)
(* retrieval itself did not fail                                             *)
C6_Witness ==
    /\ IsQuery /\ ~ret.retrieval_raised /\ NothingRelevant
    /\ \E i \in 1..Len(chunks) : chunks[i].user_id = get_user_id(ret.user_id)

(* C7: when the generative call raises after chunks were retrieved, the     *)
(* query raises nothing and returns a failure message with exactly the      *)
(* retrieved chunks.                                                         *)
C7_GenerationFailure ==
    (IsQuery /\ ret.gen_raised) =>
        /\ ~ret.raised
        /\ ret.answer = GenFailed
        /\ ret.context # <<>>
        /\ ret.chunks = ret.context

(* the generative call raised with two chunks retrieved *)
C7_Witness == IsQuery /\ ret.gen_raised /\ Len(ret.context) = 2


----------------------------------------------------------------------------
(* Multi-hop pipeline (multi_hop_rag_pipeline.py)                           *)
(*                                                                          *)
(* A question is a sequence of words, punctuation marks and line breaks,    *)
(* written with one space between words and after a punctuation mark, none  *)
(* before a punctuation mark and none around a line break.                  *)

MaxSubQuestions == 2        \* sub-questions a decomposition by the model returns at most

SplitWords == {"and", "then", "after", "before", "because"}
OtherMarkers == {"affect", "relationship", "both", "compare", "contrast"}
Interrogatives == {"how", "what", "why", "when"}
Punctuation == {",", ";", "?"}
Whitespace == {"\n"}
CommaWords == {"1,000"}     \* words that contain a comma

(* str.lower() of a word, as re.I compares it *)
Lower(w) == CASE w = "AND" -> "and" [] w = "What" -> "what" [] OTHER -> w

SynthAnswer == "resp.text.strip()"
NoSynthesis == "I couldn't generate a complete answer."

(* the item at position i stands between two spaces *)
Spaced(q, i) ==
    /\ i > 1 /\ q[i - 1] \notin Whitespace
    /\ i < Len(q) /\ q[i + 1] \notin Punctuation \cup Whitespace

(* ", " or "; " starts at position i *)
MarkSpace(q, i) ==
    q[i] \in {",", ";"} /\ i < Len(q) /\ q[i + 1] \notin Punctuation \cup Whitespace

(* is_multihop_question taking any comma for a multi-part instruction *)
is_multihop_question_any_comma(q) ==
    \/ Cardinality({i \in 1..Len(q) : q[i] = "?"}) > 1
    \/ \E i \in 1..Len(q) :
          \/ Lower(q[i]) \in SplitWords \cup OtherMarkers /\ Spaced(q, i)
          \/ MarkSpace(q, i)
    \/ \E i \in 1..Len(q) : q[i] = "," \/ q[i] \in CommaWords

is_multihop_question(q) ==
    \/ Cardinality({i \in 1..Len(q) : q[i] = "?"}) > 1
    \/ \E i \in 1..Len(q) :
          \/ Lower(q[i]) \in SplitWords \cup OtherMarkers /\ Spaced(q, i)
          \/ MarkSpace(q, i)
    \/ /\ \E i \in 1..Len(q) : q[i] = "," \/ q[i] \in CommaWords
       /\ \E i \in 1..Len(q) : q[i] \in Interrogatives

RECURSIVE SplitFrom(_, _, _, _)
(* re.split(splitters, question) from position i on: part is the piece being *)
(* read, consumed tells that the space before position i belongs to the     *)
(* match before it                                                          *)
SplitFrom(q, i, part, consumed) ==
    IF i > Len(q) THEN <<part>>
    ELSE IF MarkSpace(q, i) \/ (q[i] \in SplitWords /\ Spaced(q, i) /\ ~consumed)
    THEN <<part>> \o SplitFrom(q, i + 1, <<>>, TRUE)
    ELSE SplitFrom(q, i + 1, Append(part, q[i]), FALSE)

(* str.strip() *)
Strip(part) ==
    LET keep == {i \in 1..Len(part) : part[i] \notin Whitespace}
    IN  IF keep = {} THEN <<>>
        ELSE SubSeq(part, CHOOSE i \in keep : \A j \in keep : i <= j,
                          CHOOSE i \in keep : \A j \in keep : i >= j)

heuristic_decompose_question(q) ==
    SeqMap(Strip, SelectSeq(SplitFrom(q, 1, <<>>, FALSE), LAMBDA part : Strip(part) # <<>>))

(* llm_decompose_question returning no sub-question when the call raises *)
llm_decompose_question_empty(q, resp, llm_raises) ==
    IF llm_raises THEN [sub_questions |-> <<>>, raised |-> FALSE]
    ELSE [sub_questions |-> resp, raised |-> FALSE]

(* llm_decompose_question: the lines of the model's response, or the        *)
(* question itself when the call raises; resp is the parsed response        *)
llm_decompose_question(q, resp, llm_raises) ==
    IF llm_raises THEN [sub_questions |-> <<q>>, raised |-> FALSE]
    ELSE [sub_questions |-> resp, raised |-> FALSE]

(* synthesize_answer *)
synthesize_answer(sub_answers, synth_raises) ==
    IF synth_raises
    THEN IF sub_answers # <<>> THEN sub_answers[1] ELSE NoSynthesis
    ELSE SynthAnswer

(* the calls begun without awaiting the one before (asyncio.gather) *)
CanStartSub_gathered == started < Len(sub_questions)

(* a sub-question call may begin: the loop awaits each call before the next *)
CanStartSub == in_flight = {} /\ started < Len(sub_questions)

(* the questions asked and the sub-questions the model proposes *)
Questions ==
    {<<"what", "w", "?">>,
     <<"w", "and", "w", "?">>,
     <<"w", ",", "w", "then", "w", "?">>,
     <<"how", "w", "affect", "w", "?">>,
     <<"w", "?", "w", "?">>}

ModelSubQuestion == {<<"what", "w", "?">>, <<"why", "w", "?">>}

Responses == UNION {[1..n -> ModelSubQuestion] : n \in 0..MaxSubQuestions}

(* the tables the multi-hop queries run against *)
MHStores ==
    {<<>>,
     <<Row(1, TEST_USER_ID, "N1", <<10, 0>>)>>,
     <<Row(1, TEST_USER_ID, "N1", <<6, 8>>), Row(2, TEST_USER_ID, "N1", <<10, 0>>)>>}

InitMH ==
    /\ chunks \in MHStores
    /\ notebooks = <<>>
    /\ similarity_threshold = DefaultThreshold
    /\ db_url \in BOOLEAN
    /\ ret = NoCall
    /\ MHIdle
    /\ ModuleLoaded
    /\ verbose_mode = TRUE

(* MultiHopRAGPipeline.query(question=q, notebook_id="N1", verbose=verbose,  *)
(* user_id=None) is called                                                  *)
MHQuery ==
    /\ mh_pc = "Idle"
    /\ \E q \in Questions : question' = q
    /\ \E verbose \in BOOLEAN : verbose_mode' = verbose
    /\ mh_pc' = "Detect"
    /\ UNCHANGED <<embed_vars, loop_vars, store_vars, ret,
                   sub_questions, decomposition_method, llm_failed,
                   started, in_flight, steps, all_contexts, all_answers, synth_failed,
                   result, uploads>>

Detect ==
    /\ mh_pc = "Detect"
    /\ mh_pc' = IF is_multihop_question(question) THEN "Decompose" ELSE "SingleHop"
    /\ UNCHANGED <<embed_vars, loop_vars, verbose_mode, store_vars, ret,
                   question, sub_questions, decomposition_method,
                   llm_failed, started, in_flight, steps, all_contexts, all_answers,
                   synth_failed, result, uploads>>

Decompose ==
    /\ mh_pc = "Decompose"
    /\ sub_questions' = heuristic_decompose_question(question)
    /\ decomposition_method' = "heuristic"
    /\ mh_pc' = IF Len(sub_questions') <= 1 THEN "LlmDecompose" ELSE "Execute"
    /\ UNCHANGED <<embed_vars, loop_vars, verbose_mode, store_vars, ret,
                   question, llm_failed, started, in_flight, steps,
                   all_contexts, all_answers, synth_failed, result, uploads>>

(* await self.llm_decompose_question(question) returns or raises *)
LlmDecompose ==
    /\ mh_pc = "LlmDecompose"
    /\ \E llm_raises \in BOOLEAN :
        \E resp \in IF llm_raises THEN {<<>>} ELSE Responses :
            LET d == llm_decompose_question(question, resp, llm_raises)
            IN  /\ llm_failed' = llm_raises
                /\ sub_questions' = IF d.raised THEN <<question>> ELSE d.sub_questions
                /\ decomposition_method' = IF d.raised THEN "fallback" ELSE "llm"
    /\ mh_pc' = "Execute"
    /\ UNCHANGED <<embed_vars, loop_vars, verbose_mode, store_vars, ret,
                   question, started, in_flight, steps, all_contexts,
                   all_answers, synth_failed, result, uploads>>

(* the loop calls super().query for the next sub-question *)
SubStart ==
    /\ mh_pc = "Execute"
    /\ CanStartSub
    /\ started' = started + 1
    /\ in_flight' = in_flight \cup {started + 1}
    /\ UNCHANGED <<embed_vars, loop_vars, verbose_mode, store_vars, ret,
                   mh_pc, question, sub_questions, decomposition_method,
                   llm_failed, steps, all_contexts, all_answers, synth_failed, result, uploads>>

(* a call of super().query returns (or raises) and the loop body records it *)
SubReturn ==
    /\ mh_pc = "Execute"
    /\ \E i \in in_flight, q_embed \in QueryEmbeddings, top_k \in TopKs :
        \E fault \in QueryFaults("N1") :
        \E ord \in PgReturns(q_embed, "N1", get_user_id(None), fault) :
            LET res == query(q_embed, "N1", top_k, None, fault, ord)
            IN  /\ in_flight' = in_flight \ {i}
                /\ IF res.raised
                   THEN /\ mh_pc' = "Raised"
                        /\ UNCHANGED <<steps, all_contexts, all_answers, uploads>>
                   ELSE /\ mh_pc' = mh_pc
                        /\ all_contexts' = all_contexts \o res.chunks
                        /\ all_answers' = Append(all_answers, res.answer)
                        /\ steps' = Append(steps,
                               [step |-> i, sub_question |-> sub_questions[i],
                                answer |-> res.answer, chunks_found |-> Len(res.chunks),
                                chunk_previews |-> res.chunks])
    /\ UNCHANGED <<embed_vars, loop_vars, verbose_mode, store_vars, ret,
                   question, sub_questions, decomposition_method,
                   llm_failed, started, synth_failed, result, uploads>>

(* the loop is over: await self.synthesize_answer(...) *)
SynthStart ==
    /\ mh_pc = "Execute"
    /\ in_flight = {}
    /\ started = Len(sub_questions)
    /\ mh_pc' = "Synthesize"
    /\ UNCHANGED <<embed_vars, loop_vars, verbose_mode, store_vars, ret,
                   question, sub_questions, decomposition_method,
                   llm_failed, started, in_flight, steps, all_contexts, all_answers,
                   synth_failed, result, uploads>>

(* the return of query counting each retrieved chunk once *)
SynthReturn_unique_chunks ==
    /\ mh_pc = "Synthesize"
    /\ \E synth_raises \in BOOLEAN :
        /\ synth_failed' = synth_raises
        /\ result' = [answer |-> synthesize_answer(all_answers, synth_raises),
                      chunks |-> all_contexts,
                      is_multihop |-> TRUE,
                      decomposition_method |-> decomposition_method,
                      steps |-> steps,
                      total_steps |-> Len(sub_questions),
                      total_chunks |-> Cardinality(Range(all_contexts))]
    /\ mh_pc' = "Done"
    /\ UNCHANGED <<embed_vars, loop_vars, verbose_mode, store_vars, ret,
                   question, sub_questions, decomposition_method,
                   llm_failed, started, in_flight, steps, all_contexts, all_answers, uploads>>

(* the synthesis call returns or raises, and query returns its result *)
SynthReturn ==
    /\ mh_pc = "Synthesize"
    /\ \E synth_raises \in BOOLEAN :
        /\ synth_failed' = synth_raises
        /\ result' = [answer |-> synthesize_answer(all_answers, synth_raises),
                      chunks |-> all_contexts,
                      is_multihop |-> TRUE,
                      decomposition_method |-> decomposition_method,
                      steps |-> steps,
                      total_steps |-> Len(sub_questions),
                      total_chunks |-> Len(all_contexts)]
    /\ mh_pc' = "Done"
    /\ UNCHANGED <<embed_vars, loop_vars, verbose_mode, store_vars, ret,
                   question, sub_questions, decomposition_method,
                   llm_failed, started, in_flight, steps, all_contexts, all_answers, uploads>>

(* the single-hop branch: super().query on the question itself *)
SingleHop ==
    /\ mh_pc = "SingleHop"
    /\ \E q_embed \in QueryEmbeddings, top_k \in TopKs :
        \E fault \in QueryFaults("N1") :
        \E ord \in PgReturns(q_embed, "N1", get_user_id(None), fault) :
            LET res == query(q_embed, "N1", top_k, None, fault, ord)
            IN  IF res.raised
                THEN mh_pc' = "Raised" /\ result' = result
                ELSE /\ mh_pc' = "Done"
                     /\ result' = [answer |-> res.answer, chunks |-> res.chunks,
                                   is_multihop |-> FALSE, total_steps |-> 1]
    /\ UNCHANGED <<embed_vars, loop_vars, verbose_mode, store_vars, ret,
                   question, sub_questions, decomposition_method,
                   llm_failed, started, in_flight, steps, all_contexts, all_answers,
                   synth_failed, uploads>>

NextMH ==
    \/ MHQuery \/ Detect \/ Decompose \/ LlmDecompose
    \/ SubStart \/ SubReturn \/ SynthStart \/ SynthReturn \/ SingleHop

SpecMH == InitMH /\ [][NextMH]_vars

----------------------------------------------------------------------------
(* Detection and heuristic decomposition over all short questions *)

MaxWords == 4               \* items of a question

Items == {"w", "what", "What", "and", "AND", "affect", "1,000", ",", "?", "\n"}

AllQuestions == UNION {[1..n -> Items] : n \in 1..MaxWords}

(* MultiHopRAGPipeline.query has been called with some question *)
InitQ ==
    /\ chunks = <<>>
    /\ notebooks = <<>>
    /\ similarity_threshold = DefaultThreshold
    /\ db_url = FALSE
    /\ ret = NoCall
    /\ mh_pc = "Detect"
    /\ question \in AllQuestions
    /\ sub_questions = <<>>
    /\ decomposition_method = None
    /\ llm_failed = FALSE
    /\ started = 0
    /\ in_flight = {}
    /\ steps = <<>>
    /\ all_contexts = <<>>
    /\ all_answers = <<>>
    /\ synth_failed = FALSE
    /\ result = NoResult
    /\ ModuleLoaded
    /\ verbose_mode \in BOOLEAN

NextQ == Detect \/ Decompose

SpecQ == InitQ /\ [][NextQ]_vars

----------------------------------------------------------------------------
(* Properties of the multi-hop pipeline *)

PhaseOrder ==
    {<<"Idle", "Detect">>, <<"Detect", "Decompose">>, <<"Detect", "SingleHop">>,
     <<"Decompose", "LlmDecompose">>, <<"Decompose", "Execute">>,
     <<"LlmDecompose", "Execute">>, <<"Execute", "Synthesize">>,
     <<"Synthesize", "Done">>, <<"SingleHop", "Done">>}

(* C8: a multi-hop query passes through Detect, Decompose, the sub-question *)
(* calls 1..n one at a time and in order, Synthesize, Done: call i begins   *)
(* only when calls 1..i-1 have returned, at most one call is in flight, and *)
(* synthesis begins only when all n calls have returned.                    *)
C8_SequentialPhases ==
    [][/\ mh_pc' # mh_pc => <<mh_pc, mh_pc'>> \in PhaseOrder
       /\ Cardinality(in_flight') <= 1
       /\ \A i \in in_flight' \ in_flight : i = Len(steps) + 1 /\ in_flight = {}
       /\ \A k \in 1..Len(steps') : steps'[k].step = k
       /\ mh_pc' \in {"Synthesize", "Done"} /\ is_multihop_question(question')
            => in_flight' = {} /\ Len(steps') = Len(sub_questions')]_vars

(* a compound question went through two sub-question calls to Done *)
C8_Witness == mh_pc = "Done" /\ result.is_multihop /\ Len(steps) = 2

(* C9: when the synthesis call raises, the multi-hop query returns a result *)
(* with is_multihop = true whose answer is the first sub-answer.            *)
C9_SynthesisFallback ==
    (mh_pc = "Done" /\ synth_failed) =>
        /\ result.is_multihop
        /\ Len(all_answers) >= 1
        /\ result.answer = all_answers[1]

(* C10: when the heuristic split yields at most one sub-question and the    *)
(* decomposition by the model fails, the sub-questions are exactly the      *)
(* original question, one single-hop step runs and the query returns.       *)
C10_DecompositionFallback ==
    llm_failed =>
        /\ Len(heuristic_decompose_question(question)) <= 1
        /\ sub_questions = <<question>>
        /\ mh_pc # "Raised"
        /\ started <= 1
        /\ mh_pc = "Done" =>
              /\ result # NoResult
              /\ Len(steps) = 1
              /\ steps[1].sub_question = question
              /\ result.total_steps = 1

(* the decomposition call failed and the query went on to Done *)
C10_Witness == llm_failed /\ mh_pc = "Done" /\ Len(steps) = 1

----------------------------------------------------------------------------
(* Properties of detection and heuristic decomposition *)

(* the question contains one of the compound connective markers, compared   *)
(* without regard to case                                                   *)
HasMarker(q) ==
    \E i \in 1..Len(q) :
        \/ Lower(q[i]) \in SplitWords \cup OtherMarkers /\ Spaced(q, i)
        \/ MarkSpace(q, i)

OneQuestionMark(q) == Cardinality({i \in 1..Len(q) : q[i] = "?"}) = 1

CommaWithInterrogative(q) ==
    /\ \E i \in 1..Len(q) : q[i] = "," \/ q[i] \in CommaWords
    /\ \E i \in 1..Len(q) : q[i] \in Interrogatives

Undecomposed ==
    /\ ~is_multihop_question(question)
    /\ heuristic_decompose_question(question) = <<question>>
    /\ mh_pc \in {"Detect", "SingleHop"}

----------------------------------------------------------------------------
(* Queries over rows of any content: the metadata column is nullable, and   *)
(* a row written outside _store_chunks can hold NULL there                  *)

AnyRows == [user_id : {"A"}, embedding : Embeddings, metadata : {"dict", NULL}]

AnyTables ==
    {[i \in DOMAIN c |-> [Row(i, c[i].user_id, "N1", c[i].embedding)
                            EXCEPT !.metadata = c[i].metadata]] :
        c \in UNION {[1..n -> AnyRows] : n \in 1..MaxChunks}}

InitRows ==
    /\ chunks \in AnyTables
    /\ notebooks = <<>>
    /\ similarity_threshold \in Thresholds
    /\ db_url \in BOOLEAN
    /\ ret = NoCall
    /\ MHIdle
    /\ ModuleLoaded
    /\ verbose_mode = TRUE

NextRows == Query \/ Return

SpecRows == InitRows /\ [][NextRows]_vars

(* C19: for the same question, scope, top_k, threshold and rows the native  *)
(* search and the REST search return the same sequence of chunk ids.        *)
C19_PathEquivalence ==
    \A q \in QueryEmbeddings, nb \in NotebookArgs, k \in TopKs, u \in QueryUsers :
        \A ord \in PgOrderings(q, PgSelected(q, nb, get_user_id(u), FALSE,
                                             similarity_threshold)) :
            query_with_pgvector(ord, k)
                = query_with_supabase_client(q, nb, k, get_user_id(u), FALSE,
                                             similarity_threshold)

(* C20: RAGPipeline.query never raises and always returns an answer and     *)
(* chunks, whatever the stores do and whatever the rows hold: after a       *)
(* failure of the native search the REST search supplies the context, and   *)
(* when the REST search raises the result is the 'no relevant material'     *)
(* answer without chunks.                                                   *)
C20_QueryNeverRaises ==
    IsQuery =>
        /\ ~ret.raised
        /\ ret.answer # None
        /\ ret.path = "failover" /\ ~ret.retrieval_raised =>
              ret.context = query_with_supabase_client(
                                ret.q_embed, ret.notebook_id, ret.top_k,
                                get_user_id(ret.user_id), ret.lookup_raised,
                                similarity_threshold)
        /\ ret.retrieval_raised => (ret.answer = NoMaterial /\ ret.chunks = <<>>)

----------------------------------------------------------------------------
(* Ingestion: ingest_txt and ingest_pdf (rag_pipeline.py)                   *)
(*                                                                          *)
(* A text is the sequence of its sentences (the pieces of split('. ')), a   *)
(* PDF the sequence of its pages; each is given by the number of tokens it  *)
(* adds to the buffer, and a chunk by the indices of the units it holds.    *)

MaxUnits == 3               \* sentences of a text, pages of a PDF
MaxStored == 6              \* rows the chunks table can hold during ingestion
max_tokens_per_chunk == 3   \* self.max_tokens, scaled down

SentenceTokens == 1..2      \* _token_count(sentence + '. ')
PageTokens == 0..2          \* _token_count(page_text + "\n"); 0: no extractable text
PageImages == 0..1          \* images of a page that yield a description

Texts == UNION {[1..n -> SentenceTokens] : n \in 1..MaxUnits}

Pdfs == UNION {[1..n -> [text : PageTokens, images : PageImages]] : n \in 1..MaxUnits}

RECURSIVE SumSeq(_)
SumSeq(s) == IF s = <<>> THEN 0 ELSE Head(s) + SumSeq(Tail(s))

(* the buffer is cut as soon as each sentence has been added *)
reaches_max_tokens_always(buffer_tokens) == buffer_tokens >= 1

(* _token_count(buffer) >= self.max_tokens *)
reaches_max_tokens(buffer_tokens) == buffer_tokens >= max_tokens_per_chunk

TextChunk(buffer, tokens, page_end) ==
    [type |-> "text", units |-> buffer, tokens |-> tokens, page_end |-> page_end]

ImageChunk(page) == [type |-> "image", units |-> <<>>, tokens |-> 1, page_end |-> page]

RECURSIVE chunk_sentences(_, _, _, _)
(* the for loop of ingest_txt from sentence i on, and the flush after it *)
chunk_sentences(sentences, i, buffer, acc) ==
    IF i > Len(sentences)
    THEN IF buffer # <<>>
         THEN Append(acc, TextChunk(buffer, SumSeq([k \in 1..Len(buffer) |-> sentences[buffer[k]]]), 0))
         ELSE acc
    ELSE LET b == Append(buffer, i)
             tokens == SumSeq([k \in 1..Len(b) |-> sentences[b[k]]])
         IN  IF reaches_max_tokens(tokens)
             THEN chunk_sentences(sentences, i + 1, <<>>, Append(acc, TextChunk(b, tokens, 0)))
             ELSE chunk_sentences(sentences, i + 1, b, acc)

RECURSIVE chunk_pages(_, _, _, _)
(* the for loop of ingest_pdf from page idx on (idx counts from 1) *)
chunk_pages(doc, idx, buffer, acc) ==
    IF idx > Len(doc) THEN acc
    ELSE LET images == [k \in 1..doc[idx].images |-> ImageChunk(idx)]
             b == Append(buffer, idx)
             tokens == SumSeq([k \in 1..Len(b) |-> doc[b[k]].text])
         IN  IF doc[idx].text > 0
             THEN IF reaches_max_tokens(tokens) \/ idx = Len(doc)
                  THEN chunk_pages(doc, idx + 1, <<>>,
                                   Append(acc \o images, TextChunk(b, tokens, idx)))
                  ELSE chunk_pages(doc, idx + 1, b, acc \o images)
             ELSE chunk_pages(doc, idx + 1, buffer, acc \o images)

IngestEmbeddings == {<<6, 8>>}      \* what the embedder returns for the chunk texts

(* chunk, then _store_chunks(chunks, user_id) unless there is no chunk *)
ingest(op, doc, produced, db_fails, rest_fails) ==
    IF produced = <<>>
    THEN [table |-> chunks,
          result |-> [op |-> op, units |-> doc, produced |-> produced, raised |-> FALSE]]
    ELSE LET batch == [k \in 1..Len(produced) |-> CHOOSE e \in IngestEmbeddings : TRUE]
             st == store_chunks(batch, "N1", None, db_fails, rest_fails)
         IN  [table |-> st.table,
              result |-> [op |-> op, units |-> doc, produced |-> produced,
                          raised |-> st.result.raised]]

InitIngest ==
    /\ chunks = <<>>
    /\ notebooks = <<>>
    /\ similarity_threshold = DefaultThreshold
    /\ db_url \in BOOLEAN
    /\ ret = NoCall
    /\ MHIdle
    /\ ModuleLoaded
    /\ verbose_mode = TRUE

(* the pieces of split('. ') that can be empty or whitespace-only: such a   *)
(* piece adds only the tokens of '. ' to the buffer                         *)
BlankSentences(text) == SUBSET {i \in 1..Len(text) : text[i] <= 1}

(* ingest_txt(text, notebook_id="N1"); blank tells which sentences of the   *)
(* text are empty or whitespace-only                                        *)
IngestTxt ==
    /\ ret = NoCall
    /\ \E text \in Texts, db_fails \in BOOLEAN, rest_fails \in BOOLEAN :
        \E blank \in BlankSentences(text) :
        LET r == ingest("ingest_txt", text, chunk_sentences(text, 1, <<>>, <<>>),
                        db_fails, rest_fails)
        IN  /\ db_fails => db_url
            /\ rest_fails => (~db_url \/ db_fails)
            /\ Len(r.table) <= MaxStored
            /\ chunks' = r.table
            /\ ret' = [blank |-> blank, stored |-> Len(r.table) - Len(chunks)] @@ r.result
    /\ UNCHANGED <<notebooks, similarity_threshold, db_url, mh_vars, embed_vars,
                   verbose_mode, loop_vars, uploads>>

(* ingest_pdf(pdf, notebook_id="N1"); page.get_text().strip() leaves no     *)
(* page of whitespace: a page has text or adds nothing to the buffer        *)
IngestPdf ==
    /\ ret = NoCall
    /\ \E doc \in Pdfs, db_fails \in BOOLEAN, rest_fails \in BOOLEAN :
        LET r == ingest("ingest_pdf", doc, chunk_pages(doc, 1, <<>>, <<>>),
                        db_fails, rest_fails)
        IN  /\ db_fails => db_url
            /\ rest_fails => (~db_url \/ db_fails)
            /\ Len(r.table) <= MaxStored
            /\ chunks' = r.table
            /\ ret' = [blank |-> {}, stored |-> Len(r.table) - Len(chunks)] @@ r.result
    /\ UNCHANGED <<notebooks, similarity_threshold, db_url, mh_vars, embed_vars,
                   verbose_mode, loop_vars, uploads>>

NextIngest == IngestTxt \/ IngestPdf \/ Return

SpecIngest == InitIngest /\ [][NextIngest]_vars

----------------------------------------------------------------------------
(* Properties of ingestion *)

IsIngest == ret.op \in {"ingest_txt", "ingest_pdf"}

(* tokens the unit u of the ingested document adds to the buffer *)
UnitTokens(u) == IF ret.op = "ingest_txt" THEN ret.units[u] ELSE ret.units[u].text

(* the text chunks produced, in order *)
TextChunks == SelectSeq(ret.produced, LAMBDA c : c.type = "text")

(* the units with text, in input order *)
TextUnits == SelectSeq([u \in 1..Len(ret.units) |-> u], LAMBDA u : UnitTokens(u) > 0)

RECURSIVE Flatten(_)
Flatten(ss) == IF ss = <<>> THEN <<>> ELSE Head(ss) \o Flatten(Tail(ss))

(* C12: every text chunk but the last of a document was closed with at      *)
(* least max_tokens_per_chunk tokens in the buffer, and a chunk closed with *)
(* fewer holds the last unit of the input.                                  *)
C12_ChunkTokenBound ==
    IsIngest =>
        \A i \in 1..Len(TextChunks) :
            LET c == TextChunks[i]
            IN  /\ c.tokens = SumSeq([k \in 1..Len(c.units) |-> UnitTokens(c.units[k])])
                /\ i < Len(TextChunks) => c.tokens >= max_tokens_per_chunk
                /\ c.tokens < max_tokens_per_chunk => c.units[Len(c.units)] = Len(ret.units)

(* a document gave a full chunk of two units and a trailing chunk under the *)
(* limit                                                                     *)
C12_Witness ==
    /\ IsIngest /\ Len(TextChunks) = 2
    /\ Len(TextChunks[1].units) = 2
    /\ TextChunks[2].tokens < max_tokens_per_chunk

(* C13: after an ingestion every sentence, or every page with text, is in   *)
(* exactly one text chunk, in input order, the trailing partial buffer      *)
(* included, also for a PDF whose last page has no text; a text under the   *)
(* limit yields exactly one chunk.                                          *)
C13_EveryUnitChunked ==
    IsIngest =>
        /\ Flatten([i \in 1..Len(TextChunks) |-> TextChunks[i].units]) = TextUnits
        /\ (ret.op = "ingest_txt" /\ SumSeq(ret.units) < max_tokens_per_chunk)
              => Len(ret.produced) = 1

(* the whole text is empty or whitespace-only *)
BlankText == ret.op = "ingest_txt" /\ ret.blank = 1..Len(ret.units)

(* C25: no text chunk is made of empty or whitespace-only content alone,    *)
(* and the ingestion of an empty or whitespace-only text produces and       *)
(* stores no chunk.                                                         *)
C25_NoBlankChunk ==
    IsIngest =>
        /\ \A k \in 1..Len(TextChunks) :
              \E j \in 1..Len(TextChunks[k].units) : TextChunks[k].units[j] \notin ret.blank
        /\ BlankText => (ret.produced = <<>> /\ ret.stored = 0)

----------------------------------------------------------------------------
(* The embedder: _embed_text, _embed_text_api, _embed_texts                 *)
(*                                                                          *)
(* A text is a small number. A vector x / max(|x|, eps) is the record of x  *)
(* and of the square of |x|.                                                *)

EmbedDim == 768             \* the width _embed_text_api pads or truncates to
LocalDim == 768             \* width of sentence-transformers/all-mpnet-base-v2
HashLen == 32               \* bytes of a sha256 digest
MaxBatch == 2               \* texts of one _embed_texts call

TextIds == 1..3

(* the batches of _embed_texts: texts in increasing order *)
Batches ==
    {texts \in UNION {[1..n -> TextIds] : n \in 1..MaxBatch} :
        \A i, j \in DOMAIN texts : i < j => texts[i] < texts[j]}

(* the values of the provider's response for a text: 767, 769 or 768 wide *)
ProviderValues(text) ==
    [i \in 1..(CASE text = 1 -> EmbedDim - 1 [] text = 2 -> EmbedDim + 1 [] OTHER -> EmbedDim)
        |-> text + 1]

(* model.encode(text) *)
LocalValues(text) == [i \in 1..LocalDim |-> text]

(* hashlib.sha256(text.encode()).digest() *)
Sha256(text) == [i \in 1..HashLen |-> (i * 37 * text) % 256]

RECURSIVE SumSquares(_, _, _)
(* the sum of x[i] * x[i] for i in lo..hi *)
SumSquares(x, lo, hi) ==
    IF lo > hi THEN 0
    ELSE IF lo = hi THEN x[lo] * x[lo]
    ELSE LET mid == (lo + hi) \div 2
         IN  SumSquares(x, lo, mid) + SumSquares(x, mid + 1, hi)

(* _l2_normalize: x / max(np.linalg.norm(x), eps) *)
l2_normalize(x) == [values |-> x, norm2 |-> SumSquares(x, 1, Len(x))]

NoVector == [values |-> <<>>, norm2 |-> 0]

(* (hash_bytes * (768 // 32 + 1))[:768] *)
RepeatedBytes(text) ==
    LET h == Sha256(text)
        n == HashLen * (EmbedDim \div HashLen + 1)
    IN  SubSeq([i \in 1..n |-> h[((i - 1) % HashLen) + 1]], 1, EmbedDim)

ApiOutcomes == {"ok", "empty", "error"}

(* _embed_text_api returning the provider's vector as it came *)
embed_text_api_unpadded(text, api) ==
    IF api = "ok"
    THEN [vector |-> l2_normalize(ProviderValues(text)), tier |-> "api",
          calls |-> <<"api">>, raised |-> FALSE]
    ELSE [vector |-> l2_normalize(RepeatedBytes(text)), tier |-> "hash",
          calls |-> <<"api", "hash">>, raised |-> FALSE]

(* _embed_text_api: the provider's vector padded or truncated to 768, or    *)
(* the hash-based vector when the request fails or returns no values        *)
embed_text_api(text, api) ==
    IF api = "ok"
    THEN LET e == ProviderValues(text)
             padded == IF Len(e) < EmbedDim
                       THEN e \o [i \in 1..(EmbedDim - Len(e)) |-> 0]
                       ELSE IF Len(e) > EmbedDim THEN SubSeq(e, 1, EmbedDim) ELSE e
         IN  [vector |-> l2_normalize(padded), tier |-> "api",
              calls |-> <<"api">>, raised |-> FALSE]
    ELSE [vector |-> l2_normalize(RepeatedBytes(text)), tier |-> "hash",
          calls |-> <<"api", "hash">>, raised |-> FALSE]

(* _embed_text without the except clause around the local model *)
embed_text_no_fallback(text, local_ok, api) ==
    IF SENTENCE_TRANSFORMERS_AVAILABLE
    THEN IF local_ok
         THEN [vector |-> l2_normalize(LocalValues(text)), tier |-> "local",
               calls |-> <<"local">>, raised |-> FALSE]
         ELSE [vector |-> NoVector, tier |-> None, calls |-> <<"local">>, raised |-> TRUE]
    ELSE embed_text_api(text, api)

(* _embed_text *)
embed_text(text, local_ok, api) ==
    IF SENTENCE_TRANSFORMERS_AVAILABLE
    THEN IF local_ok
         THEN [vector |-> l2_normalize(LocalValues(text)), tier |-> "local",
               calls |-> <<"local">>, raised |-> FALSE]
         ELSE LET r == embed_text_api(text, api)
              IN  [r EXCEPT !.calls = <<"local">> \o r.calls]
    ELSE embed_text_api(text, api)

(* _embed_texts: one local encode of the whole batch, or _embed_texts_api,  *)
(* which embeds text by text; api gives the outcome of each request         *)
embed_texts(texts, local_ok, api) ==
    [k \in 1..Len(texts) |->
        IF SENTENCE_TRANSFORMERS_AVAILABLE
        THEN IF local_ok
             THEN [vector |-> l2_normalize(LocalValues(texts[k])), tier |-> "local",
                   calls |-> <<"local">>, raised |-> FALSE]
             ELSE LET r == embed_text_api(texts[k], api[k])
                  IN  [r EXCEPT !.calls = <<"local">> \o r.calls]
        ELSE embed_text_api(texts[k], api[k])]

(* _get_sentence_model: the model stays loaded once a local encode is reached *)
sentence_model_after(local_ok) ==
    IF SENTENCE_TRANSFORMERS_AVAILABLE /\ local_ok THEN "loaded" ELSE sentence_model

InitEmbed ==
    /\ chunks = <<>>
    /\ notebooks = <<>>
    /\ similarity_threshold = DefaultThreshold
    /\ db_url = FALSE
    /\ ret = NoCall
    /\ MHIdle
    /\ SENTENCE_TRANSFORMERS_AVAILABLE \in BOOLEAN
    /\ sentence_model = None
    /\ tasks = <<>>
    /\ running = None
    /\ uploads = <<>>
    /\ verbose_mode = TRUE

(* the outcomes one call can meet: the local model is tried only when       *)
(* available, the API only when the local model was not used                *)
LocalOutcomes == IF SENTENCE_TRANSFORMERS_AVAILABLE THEN BOOLEAN ELSE {FALSE}

(* a call of _embed_text(text) *)
EmbedText ==
    /\ \E text \in TextIds, local_ok \in LocalOutcomes :
        \E api \in IF local_ok THEN {"ok"} ELSE ApiOutcomes :
            /\ ret' = [op |-> "embed", texts |-> <<text>>, local_ok |-> local_ok,
                       api |-> <<api>>, rows |-> <<embed_text(text, local_ok, api)>>]
            /\ sentence_model' = sentence_model_after(local_ok)
    /\ UNCHANGED <<store_vars, mh_vars, SENTENCE_TRANSFORMERS_AVAILABLE, verbose_mode,
                   loop_vars, uploads>>

(* a call of _embed_texts(texts) *)
EmbedTexts ==
    /\ \E texts \in Batches, local_ok \in LocalOutcomes :
        \E api \in IF local_ok THEN {[k \in DOMAIN texts |-> "ok"]}
                   ELSE [DOMAIN texts -> ApiOutcomes] :
            /\ ret' = [op |-> "embed", texts |-> texts, local_ok |-> local_ok,
                       api |-> api, rows |-> embed_texts(texts, local_ok, api)]
            /\ sentence_model' = sentence_model_after(local_ok)
    /\ UNCHANGED <<store_vars, mh_vars, SENTENCE_TRANSFORMERS_AVAILABLE, verbose_mode,
                   loop_vars, uploads>>

NextEmbed == EmbedText \/ EmbedTexts

SpecEmbed == InitEmbed /\ [][NextEmbed]_vars

----------------------------------------------------------------------------
(* Properties of the embedder *)

IsEmbed(r) == r.op = "embed"

(* C14: the tiers are tried in the order local model, remote API, hash: the *)
(* API only if the local model is unavailable or raised, the hash only if   *)
(* the API request failed; the first tier that succeeds supplies the vector *)
(* and no combination of failures makes the call raise.                     *)
C14_TierOrder ==
    IsEmbed(ret) =>
        \A k \in 1..Len(ret.rows) :
            LET r == ret.rows[k]
                local_used == SENTENCE_TRANSFORMERS_AVAILABLE /\ ret.local_ok
            IN  /\ ~r.raised
                /\ r.vector # NoVector
                /\ r.calls \in {<<"local">>, <<"local", "api">>, <<"local", "api", "hash">>,
                                <<"api">>, <<"api", "hash">>}
                /\ r.calls[1] = "local" <=> SENTENCE_TRANSFORMERS_AVAILABLE
                /\ r.tier = r.calls[Len(r.calls)]
                /\ r.tier = "local" <=> local_used
                /\ r.tier = "api" <=> (~local_used /\ ret.api[k] = "ok")
                /\ r.tier = "hash" <=> (~local_used /\ ret.api[k] # "ok")

(* the local model raised, the API request failed and the hash tier         *)
(* supplied the vector                                                      *)
C14_Witness ==
    /\ IsEmbed(ret)
    /\ \E k \in 1..Len(ret.rows) : ret.rows[k].calls = <<"local", "api", "hash">>

(* the texts a call embedded, with the tier and the vector of each *)
Embedded(r) ==
    IF IsEmbed(r)
    THEN {[text |-> r.texts[k], tier |-> r.rows[k].tier, vector |-> r.rows[k].vector] :
            k \in 1..Len(r.rows)}
    ELSE {}

----------------------------------------------------------------------------
(* Interleaved queries: coroutines of MultiHopRAGPipeline.query on one      *)
(* pipeline and one event loop. A coroutine runs until it awaits a call     *)
(* that was handed to a worker thread (asyncio.to_thread) or returns; a     *)
(* call made directly keeps the event loop until it returns.                *)

Tasks == {"q1", "q2"}       \* the coroutines scheduled on the loop

(* how the question of a query is handled: not multi-hop, split in two by   *)
(* the heuristic, or handed to the model, which returns one sub-question    *)
QueryKinds == {"single", "heuristic", "llm"}

NotCalled == [pc |-> "idle", kind |-> None, verbose |-> FALSE, sub |-> 0, nsub |-> 0,
              printed |-> 0]

(* print_step, print_results and print_synthesis print iff self.verbose_mode *)
Printed(flag) == IF flag THEN 1 ELSE 0

InitLoop ==
    /\ chunks = <<>>
    /\ notebooks = <<>>
    /\ similarity_threshold = DefaultThreshold
    /\ db_url = FALSE
    /\ ret = NoCall
    /\ MHIdle
    /\ SENTENCE_TRANSFORMERS_AVAILABLE = TRUE
    /\ sentence_model = None
    /\ verbose_mode = TRUE
    /\ tasks = [t \in Tasks |-> NotCalled]
    /\ running = None
    /\ uploads = <<>>

(* a caller schedules query(question=..., verbose=verbose) *)
TaskCall ==
    /\ \E t \in Tasks, kind \in QueryKinds, verbose \in BOOLEAN :
        /\ tasks[t].pc = "idle"
        /\ tasks' = [tasks EXCEPT ![t] = [NotCalled EXCEPT !.pc = "ready", !.kind = kind,
                                                           !.verbose = verbose]]
    /\ UNCHANGED <<store_vars, ret, mh_vars, embed_vars, verbose_mode, running, uploads>>

(* the loop starts the coroutine: self.verbose_mode = verbose, detection,   *)
(* heuristic split, then either the await of llm_decompose_question or the  *)
(* first print_step and the _embed_text call of super().query               *)
TaskBegin ==
    /\ running = None
    /\ \E t \in Tasks :
        /\ tasks[t].pc = "ready"
        /\ verbose_mode' = tasks[t].verbose
        /\ CASE tasks[t].kind = "single" ->
                  /\ tasks' = [tasks EXCEPT ![t].pc = "embed", ![t].sub = 1, ![t].nsub = 1]
                  /\ running' = t
             [] tasks[t].kind = "heuristic" ->
                  /\ tasks' = [tasks EXCEPT ![t].pc = "embed", ![t].sub = 1, ![t].nsub = 2,
                                            ![t].printed = Printed(verbose_mode')]
                  /\ running' = t
             [] OTHER ->
                  /\ tasks' = [tasks EXCEPT ![t].pc = "decomposing"]
                  /\ running' = None
    /\ UNCHANGED <<store_vars, ret, mh_vars, embed_vars, uploads>>

(* the worker thread of llm_decompose_question is done and the loop resumes *)
(* the coroutine: print_step, then the _embed_text call of super().query    *)
LlmDecomposeReturn ==
    /\ running = None
    /\ \E t \in Tasks :
        /\ tasks[t].pc = "decomposing"
        /\ tasks' = [tasks EXCEPT ![t].pc = "embed", ![t].sub = 1, ![t].nsub = 1,
                                  ![t].printed = @ + Printed(verbose_mode)]
        /\ running' = t
    /\ UNCHANGED <<store_vars, ret, mh_vars, embed_vars, verbose_mode, uploads>>

(* the rest of the loop body after super().query returned, and what follows *)
(* it: the next sub-question, the await of synthesize_answer, or the return *)
AfterSubQuery(t) ==
    IF tasks[t].kind = "single"
    THEN /\ tasks' = [tasks EXCEPT ![t].pc = "done"]
         /\ running' = None
    ELSE IF tasks[t].sub < tasks[t].nsub
    THEN /\ tasks' = [tasks EXCEPT ![t].pc = "embed", ![t].sub = @ + 1,
                                   ![t].printed = @ + 2 * Printed(verbose_mode)]
         /\ running' = t
    ELSE /\ tasks' = [tasks EXCEPT ![t].pc = "synthesizing",
                                   ![t].printed = @ + 2 * Printed(verbose_mode)]
         /\ running' = None

(* _embed_text(question) returns inside RAGPipeline.query; the retrieval    *)
(* follows, and model.generate_content is called if it found chunks         *)
EmbedReturn ==
    /\ \E t \in Tasks, found \in BOOLEAN :
        /\ tasks[t].pc = "embed"
        /\ running = t
        /\ IF found
           THEN tasks' = [tasks EXCEPT ![t].pc = "generate"] /\ running' = t
           ELSE AfterSubQuery(t)
    /\ UNCHANGED <<store_vars, ret, mh_vars, embed_vars, verbose_mode, uploads>>

(* model.generate_content(prompt) returns or raises inside RAGPipeline.query *)
GenerateReturn ==
    /\ \E t \in Tasks :
        /\ tasks[t].pc = "generate"
        /\ running = t
        /\ AfterSubQuery(t)
    /\ UNCHANGED <<store_vars, ret, mh_vars, embed_vars, verbose_mode, uploads>>

(* the worker thread of synthesize_answer is done and the query returns *)
SynthesisReturn ==
    /\ running = None
    /\ \E t \in Tasks :
        /\ tasks[t].pc = "synthesizing"
        /\ tasks' = [tasks EXCEPT ![t].pc = "done"]
    /\ UNCHANGED <<store_vars, ret, mh_vars, embed_vars, verbose_mode, running, uploads>>

NextLoop ==
    \/ TaskCall \/ TaskBegin \/ LlmDecomposeReturn
    \/ EmbedReturn \/ GenerateReturn \/ SynthesisReturn

SpecLoop == InitLoop /\ [][NextLoop]_vars

----------------------------------------------------------------------------
(* Properties of interleaved queries *)

(* a query is inside a call of the embedder or of the generative model *)
InModelCall(t) == tasks[t].pc \in {"embed", "generate", "decomposing", "synthesizing"}

(* C17: while a query is inside an embedding call or a generative-model     *)
(* call it does not hold the event loop: the call runs on a worker thread   *)
(* and another coroutine can take a step.                                   *)
C17_ModelCallsOffloaded ==
    \A t \in Tasks : InModelCall(t) => running # t

(* what a query prints through print_step, print_results and                *)
(* print_synthesis when it runs alone                                       *)
PrintedAlone(t) ==
    IF tasks[t].verbose /\ tasks[t].kind # "single" THEN 2 * tasks[t].nsub + 1 ELSE 0

(* C18: interleaved queries on one pipeline do not write in-memory state    *)
(* that the other reads: the step output a query emitted is what it emits   *)
(* when it runs alone.                                                      *)
C18_NoSharedState ==
    \A t \in Tasks : tasks[t].pc = "done" => tasks[t].printed = PrintedAlone(t)

----------------------------------------------------------------------------
(* Stored embeddings of any shape: find_relevent_chunks over rows whose     *)
(* embedding was written by another model or cannot be parsed. A stored     *)
(* embedding is given by its kind and its width; a candidate's text is a    *)
(* text of the embedder.                                                    *)

EXPECTED_DIM == 768         \* EXPECTED_DIM = 768
SampleSize == 10            \* the first pass looks at stored_embeddings[:10]
MismatchLimit == 5          \* mismatches > 5
BatchMin == 10              \* len(documents) > 10
MaxCandidates == 2          \* rows of a short scan

(* what the parsing of the embedding column leaves in stored_embeddings:    *)
(* None, a value that is not a list, an empty list, a list of numbers       *)
StoredEmbeddingShapes ==
    {[kind |-> "none", width |-> 0], [kind |-> "other", width |-> 0],
     [kind |-> "list", width |-> 0], [kind |-> "list", width |-> EXPECTED_DIM - 1],
     [kind |-> "list", width |-> EXPECTED_DIM], [kind |-> "list", width |-> EXPECTED_DIM + 1]}

ShortScans == UNION {[1..n -> StoredEmbeddingShapes] : n \in 1..MaxCandidates}

(* scans of more than ten rows that begin with m rows of another width *)
LongScans ==
    {[i \in 1..(BatchMin + 1) |->
        [kind |-> "list", width |-> IF i <= m THEN EXPECTED_DIM + 1 ELSE EXPECTED_DIM]] :
     m \in {MismatchLimit, MismatchLimit + 1}}

(* the text of the i-th scanned row *)
DocumentText(i) == ((i - 1) % Cardinality(TextIds)) + 1

(* np.array(stored_embeddings[idx], dtype=np.float32) *)
StoredVector(stored) ==
    LET x == [i \in 1..stored.width |-> 1]
    IN  [values |-> x, norm2 |-> SumSquares(x, 1, Len(x))]

(* the first pass: lists of another width among the first ten *)
mismatches(stored_embeddings) ==
    Cardinality({i \in 1..Min(SampleSize, Len(stored_embeddings)) :
        /\ stored_embeddings[i].kind = "list"
        /\ stored_embeddings[i].width > 0
        /\ stored_embeddings[i].width # EXPECTED_DIM})

(* if mismatches > 5 and len(documents) > 10: re-embed every document *)
batch_reembed(stored_embeddings) ==
    mismatches(stored_embeddings) > MismatchLimit /\ Len(stored_embeddings) > BatchMin

(* should_reembed looking only for a missing embedding *)
should_reembed_missing_only(stored, q_len) ==
    stored.kind # "list" \/ stored.width = 0

(* should_reembed of the loop body *)
should_reembed(stored, q_len) ==
    \/ stored.kind # "list" \/ stored.width = 0
    \/ stored.width # EXPECTED_DIM
    \/ stored.width # q_len

(* the loop body of find_relevent_chunks for one row, up to np.dot *)
doc_embed(stored, text, q, batch, local_ok, api) ==
    LET fresh == IF batch THEN embed_texts(<<text>>, local_ok, <<api>>)[1].vector
                 ELSE embed_text(text, local_ok, api).vector
        kept == IF batch THEN [kind |-> "list", width |-> Len(fresh.values)] ELSE stored
        again == should_reembed(kept, Len(q.values))
        doc == IF batch \/ again THEN fresh ELSE StoredVector(kept)
    IN  [stored |-> stored, reembedded |-> (batch \/ again),
         q_len |-> Len(q.values), doc_len |-> Len(doc.values),
         skipped |-> (doc.norm2 = 0)]

(* find_relevent_chunks over the parsed stored embeddings; np.dot raises on *)
(* vectors of different length                                              *)
find_relevent_chunks_any_shape(q, stored_embeddings, local_ok, api) ==
    LET batch == batch_reembed(stored_embeddings)
        rows == IF q.norm2 = 0 THEN <<>>
                ELSE [i \in 1..Len(stored_embeddings) |->
                        doc_embed(stored_embeddings[i], DocumentText(i), q, batch,
                                  local_ok, api)]
    IN  [op |-> "find_relevent_chunks", batch |-> batch, rows |-> rows,
         raised |-> \E i \in 1..Len(rows) :
                        ~rows[i].skipped /\ rows[i].doc_len # rows[i].q_len]

(* _query_with_supabase_client hands the question's embedding and the       *)
(* scanned rows to find_relevent_chunks                                     *)
FindRelevantChunks ==
    /\ ret = NoCall
    /\ \E question_text \in TextIds, stored_embeddings \in ShortScans \cup LongScans,
          local_ok \in LocalOutcomes :
        \E api \in IF local_ok THEN {"ok"} ELSE ApiOutcomes :
            /\ ret' = find_relevent_chunks_any_shape(
                          embed_text(question_text, local_ok, api).vector,
                          stored_embeddings, local_ok, api)
            /\ sentence_model' = sentence_model_after(local_ok)
    /\ UNCHANGED <<store_vars, mh_vars, SENTENCE_TRANSFORMERS_AVAILABLE, verbose_mode,
                   loop_vars, uploads>>

NextDims == FindRelevantChunks \/ Return

SpecDims == InitEmbed /\ [][NextDims]_vars

(* C21: find_relevent_chunks never takes the dot product of two vectors of  *)
(* different length: every row whose stored embedding is missing, not a     *)
(* list, or of a width other than 768 or other than the query's is          *)
(* re-embedded from its text before it is compared with the query.          *)
C21_NoMixedWidthComparison ==
    ret.op = "find_relevent_chunks" =>
        /\ ~ret.raised
        /\ \A i \in 1..Len(ret.rows) :
            LET r == ret.rows[i]
            IN  /\ ~r.skipped => r.doc_len = r.q_len
                /\ (\/ r.stored.kind # "list" \/ r.stored.width = 0
                    \/ r.stored.width # EXPECTED_DIM
                    \/ r.stored.width # r.q_len) => r.reembedded

(* a scan held a row of width 769, which was re-embedded, and a row of      *)
(* width 768, which was compared as stored                                  *)
C21_Witness ==
    /\ ret.op = "find_relevent_chunks"
    /\ \E i, j \in 1..Len(ret.rows) :
          /\ ret.rows[i].stored.width = EXPECTED_DIM + 1 /\ ret.rows[i].reembedded
          /\ ret.rows[i].doc_len = EXPECTED_DIM
          /\ ret.rows[j].stored.width = EXPECTED_DIM /\ ~ret.rows[j].reembedded

----------------------------------------------------------------------------
(* Detection against heuristic decomposition *)

(* a marker of the detection's list stands at position i between two parts  *)
(* that are not empty                                                       *)
MarkerBetweenParts(q) ==
    \E i \in 1..Len(q) :
        /\ \/ Lower(q[i]) \in SplitWords \cup OtherMarkers /\ Spaced(q, i)
           \/ MarkSpace(q, i)
        /\ Strip(SubSeq(q, 1, i - 1)) # <<>>
        /\ Strip(SubSeq(q, i + 1, Len(q))) # <<>>

(* C22: the heuristic split uses the connective markers of the detection:   *)
(* a question in which such a marker stands between two non-empty parts is  *)
(* split in at least two sub-questions, and the decomposition by the model  *)
(* is not called for it.                                                    *)
C22_SameConnectiveSet ==
    (mh_pc \in {"LlmDecompose", "Execute"} /\ MarkerBetweenParts(question)) =>
        /\ Len(sub_questions) >= 2
        /\ mh_pc = "Execute"

----------------------------------------------------------------------------
(* The routes of app.py: POST /api/upload and POST /api/chat on the one     *)
(* ChatBot of the process. Requests run concurrently; an upload creates its *)
(* document record, ingests the file, then links the chunks to the record.  *)

MaxUploadChunks == 1        \* chunks one uploaded file yields
DefaultTopK == 3            \* top_k: int = 3

Uploads == {"u1", "u2"}
UploadUsers == {"A", "B"}                   \* get_authenticated_user_id()
FileTypes == {"pdf", "image", "txt", "docx"}

(* document_id = str(uuid.uuid4()) of create_document_record *)
DocumentId(t) == IF t = "u1" THEN "D1" ELSE "D2"

NoUpload == [pc |-> "idle", user_id |-> None, file_type |-> None, document_id |-> NULL,
             created |-> {}, status |-> None]

(* ChatBot.upload_document(file, notebook_id, user_id): the scope it hands  *)
(* to ingest_pdf, analyze_image or ingest_txt                               *)
upload_document(file_type, notebook_id, user_id) ==
    [notebook_id |-> notebook_id,
     user_id |-> IF file_type = "pdf" THEN user_id ELSE None]

(* the processing branch of the upload route: an image goes to              *)
(* chatbot.rag.analyze_image, every other file to chatbot.upload_document   *)
process_file(file_type, notebook_id, user_id) ==
    IF file_type = "image"
    THEN [notebook_id |-> notebook_id, user_id |-> user_id]
    ELSE upload_document(file_type, notebook_id, user_id)

(* chunks.update({'document_id': D}).eq('notebook_id', N).eq('user_id', U)  *)
(*       .is_('document_id', 'null')                                        *)
link_chunks(document_id, notebook_id, user_id) ==
    [i \in 1..Len(chunks) |->
        IF /\ chunks[i].notebook_id = notebook_id
           /\ chunks[i].user_id = user_id
           /\ chunks[i].document_id = NULL
        THEN [chunks[i] EXCEPT !.document_id = document_id]
        ELSE chunks[i]]

InitUpload ==
    /\ chunks = <<>>
    /\ notebooks = <<>>
    /\ similarity_threshold = DefaultThreshold
    /\ db_url \in BOOLEAN
    /\ ret = NoCall
    /\ MHIdle
    /\ SENTENCE_TRANSFORMERS_AVAILABLE = TRUE
    /\ sentence_model = None
    /\ tasks = <<>>
    /\ running = None
    /\ verbose_mode = TRUE
    /\ uploads = [t \in Uploads |-> NoUpload]

(* the route up to update_document_status(document_id, 'processing') *)
UploadBegin ==
    /\ \E t \in Uploads, user_id \in UploadUsers, file_type \in FileTypes :
        /\ uploads[t].pc = "idle"
        /\ uploads' = [uploads EXCEPT ![t] =
                          [NoUpload EXCEPT !.pc = "processing", !.user_id = user_id,
                                           !.file_type = file_type,
                                           !.document_id = DocumentId(t),
                                           !.status = "processing"]]
    /\ UNCHANGED <<store_vars, ret, mh_vars, embed_vars, verbose_mode, loop_vars>>

(* the file is ingested into notebook N1: success is False, or the route's  *)
(* outer except is taken, when the chunks could not be stored               *)
UploadIngest ==
    /\ \E t \in Uploads, n \in 1..MaxUploadChunks, db_fails \in BOOLEAN,
          rest_fails \in BOOLEAN :
        LET scope == process_file(uploads[t].file_type, "N1", uploads[t].user_id)
            batch == [k \in 1..n |-> CHOOSE e \in IngestEmbeddings : TRUE]
            s == store_chunks(batch, scope.notebook_id, scope.user_id, db_fails, rest_fails)
        IN  /\ uploads[t].pc = "processing"
            /\ db_fails => db_url
            /\ rest_fails => (~db_url \/ db_fails)
            /\ chunks' = s.table
            /\ uploads' = [uploads EXCEPT ![t] =
                  IF s.result.raised
                  THEN [@ EXCEPT !.pc = "failed", !.status = "failed"]
                  ELSE [@ EXCEPT !.pc = "ingested",
                                 !.created = (Len(chunks) + 1)..Len(s.table)]]
    /\ UNCHANGED <<notebooks, similarity_threshold, db_url, ret, mh_vars, embed_vars,
                   verbose_mode, loop_vars>>

(* if success: the chunks are linked (a failure of the update is caught)    *)
(* and the status becomes 'completed'                                       *)
UploadLink ==
    /\ \E t \in Uploads, link_fails \in BOOLEAN :
        /\ uploads[t].pc = "ingested"
        /\ chunks' = IF link_fails THEN chunks
                     ELSE link_chunks(uploads[t].document_id, "N1", uploads[t].user_id)
        /\ uploads' = [uploads EXCEPT ![t] = [@ EXCEPT !.pc = "completed",
                                                       !.status = "completed"]]
    /\ UNCHANGED <<notebooks, similarity_threshold, db_url, ret, mh_vars, embed_vars,
                   verbose_mode, loop_vars>>

(* ChatBot.ask_question(question, notebook_id): self.rag.query(question=    *)
(* question, notebook_id=notebook_id), so every RAGPipeline.query of the    *)
(* request gets user_id = None                                              *)
ask_question(q_embed, notebook_id, fault, ord) ==
    query(q_embed, notebook_id, DefaultTopK, None, fault, ord)

(* POST /api/chat or /api/chat/stream of an authenticated user for notebook *)
(* N1                                                                       *)
Chat ==
    /\ ret = NoCall
    /\ \E authenticated \in UploadUsers, q_embed \in QueryEmbeddings :
        \E fault \in QueryFaults("N1") :
        \E ord \in PgReturns(q_embed, "N1", get_user_id(None), fault) :
            ret' = [authenticated |-> authenticated]
                       @@ ask_question(q_embed, "N1", fault, ord)
    /\ UNCHANGED <<store_vars, mh_vars, embed_vars, verbose_mode, loop_vars, uploads>>

NextUpload == UploadBegin \/ UploadIngest \/ UploadLink \/ Chat \/ Return

SpecUpload == InitUpload /\ [][NextUpload]_vars

(* the upload that created row i *)
CreatedBy(i) == CHOOSE t \in Uploads : i \in uploads[t].created

(* C23: when an upload of document D has completed, every chunk its         *)
(* ingestion created has document_id = D, and no chunk created by the       *)
(* ingestion of another document has document_id = D, whatever the          *)
(* interleaving of the uploads and whatever failed before.                  *)
C23_DocumentBackfill ==
    \A t \in Uploads :
        /\ uploads[t].pc = "completed" =>
              \A i \in uploads[t].created : chunks[i].document_id = uploads[t].document_id
        /\ \A u \in Uploads \ {t} :
              \A i \in uploads[u].created : chunks[i].document_id # DocumentId(t)

(* C29: every chunk an upload of user U into notebook N created is stored   *)
(* with user_id = U and notebook N, for every file type.                    *)
C29_UploadScope ==
    \A t \in Uploads :
        \A i \in uploads[t].created :
            /\ chunks[i].user_id = uploads[t].user_id
            /\ chunks[i].notebook_id = "N1"

(* C30: the retrieval of a chat request authenticated as user A is scoped by *)
(* A's id and holds only chunks that user A ingested.                        *)
C30_ChatScope ==
    IsQuery =>
        /\ get_user_id(ret.user_id) = ret.authenticated
        /\ \A i \in Range(ret.context) : uploads[CreatedBy(i)].user_id = ret.authenticated

----------------------------------------------------------------------------
(* Ingestion of chunks whose raw embedding is all zeros: _l2_normalize      *)
(* divides by max(norm, eps) and hands the zero vector back                 *)

ZeroVector == <<0, 0>>

(* the rows of _embed_texts([c.text for c in chunks]) *)
EmbedderOutputs == Embeddings \cup {ZeroVector}

(* _store_chunks(chunks, user_id) with a non-empty list of chunks *)
StoreEmbedded ==
    /\ ret = NoCall
    /\ \E n \in 1..(MaxChunks - Len(chunks)), notebook_id \in IngestNotebooks,
          user_arg \in UserArgs, db_fails \in BOOLEAN, rest_fails \in BOOLEAN :
        \E embeddings \in [1..n -> EmbedderOutputs] :
            LET s == store_chunks(embeddings, notebook_id, user_arg, db_fails, rest_fails)
            IN  /\ db_fails => db_url
                /\ rest_fails => (~db_url \/ db_fails)
                /\ chunks' = s.table
                /\ ret' = s.result
    /\ UNCHANGED <<notebooks, similarity_threshold, db_url, mh_vars, embed_vars,
                   verbose_mode, loop_vars, uploads>>

NextZero == StoreEmbedded \/ Return

SpecZero == Init /\ [][NextZero]_vars

(* C24: a chunk whose embedding is the zero vector is never written to the  *)
(* chunks table, and a _store_chunks call that meets one ends in an error.  *)
C24_ZeroVectorRejected ==
    /\ \A i \in 1..Len(chunks) : chunks[i].embedding # ZeroVector
    /\ (ret.op = "store" /\ ZeroVector \in Range(ret.batch)) => ret.raised

----------------------------------------------------------------------------
(* Properties of the multi-hop result *)

(* C26: a multi-hop result has one step per executed sub-question, numbered *)
(* 1..n in execution order with total_steps = n; its chunks are the chunks  *)
(* of the steps concatenated in step order; total_chunks is their number    *)
(* and the sum of chunks_found; and synthesis gets one sub-answer per step  *)
(* in the same order.                                                       *)
C26_StepAccounting ==
    /\ (mh_pc \in {"Synthesize", "Done"} /\ is_multihop_question(question)) =>
          /\ Len(all_answers) = Len(steps)
          /\ \A k \in 1..Len(steps) : all_answers[k] = steps[k].answer
    /\ (mh_pc = "Done" /\ result.is_multihop) =>
          /\ result.steps = steps
          /\ Len(result.steps) = Len(sub_questions)
          /\ result.total_steps = Len(result.steps)
          /\ \A k \in 1..Len(result.steps) :
                /\ result.steps[k].step = k
                /\ result.steps[k].sub_question = sub_questions[k]
                /\ result.steps[k].chunks_found = Len(result.steps[k].chunk_previews)
          /\ result.chunks
                = Flatten([k \in 1..Len(result.steps) |-> result.steps[k].chunk_previews])
          /\ result.total_chunks = Len(result.chunks)
          /\ result.total_chunks
                = SumSeq([k \in 1..Len(result.steps) |-> result.steps[k].chunks_found])

(* two steps retrieved the same chunk and the result lists it twice *)
C26_Witness ==
    /\ mh_pc = "Done" /\ result.is_multihop
    /\ Len(result.steps) = 2
    /\ result.steps[1].chunks_found >= 1
    /\ result.steps[1].chunk_previews = result.steps[2].chunk_previews
    /\ result.total_chunks > Cardinality(Range(result.chunks))

(* C27: the sub-questions a multi-hop query executes are never empty:       *)
(* whatever the model answers to the decomposition prompt, at least one     *)
(* step runs before synthesis and synthesis gets at least one sub-answer.   *)
C27_SubQuestionsNeverEmpty ==
    /\ (mh_pc \in {"Execute", "Synthesize", "Done"} /\ is_multihop_question(question))
          => sub_questions # <<>>
    /\ (mh_pc \in {"Synthesize", "Done"} /\ is_multihop_question(question))
          => (Len(steps) >= 1 /\ Len(all_answers) >= 1)

(* C28: the decomposition_method of a multi-hop result is 'heuristic' iff   *)
(* the heuristic split gave at least two sub-questions, 'llm' iff the       *)
(* decomposition call of the model returned, and 'fallback' iff that call   *)
(* failed and the question itself was the one sub-question.                 *)
C28_DecompositionMethod ==
    (mh_pc = "Done" /\ result.is_multihop) =>
        LET by_split == Len(heuristic_decompose_question(question)) >= 2
        IN  /\ result.decomposition_method \in {"heuristic", "llm", "fallback"}
            /\ result.decomposition_method = "heuristic" <=> by_split
            /\ result.decomposition_method = "llm" <=> (~by_split /\ ~llm_failed)
            /\ result.decomposition_method = "fallback"
                  <=> (~by_split /\ llm_failed /\ sub_questions = <<question>>)

====
